---- MODULE Spec2Model ----
(***************************************************************************)
(* Imaginary Crime Lab: the order webhook of the Cloudflare Worker and the *)
(* durable state it shares with every other request (Neon Postgres tables  *)
(* cases, case_evidence, purchased_evidence, purchases; MongoDB collection *)
(* activities).                                                            *)
(*                                                                         *)
(* Requests run concurrently; a handler gives up control at every await,   *)
(* so one action is the code between two awaits together with the database *)
(* statement awaited (each statement is its own autocommit transaction of  *)
(* the Neon HTTP driver).                                                  *)
(*                                                                         *)
(* Spec        the worker with the evidence ledger  (src/unnamed/part_010, *)
(*             lines 1-431: /purchased-evidence, /reset-progress, ...)     *)
(* SpecOrders  the worker that solves the cases named by the order's       *)
(*             case_ids attribute and writes purchases                     *)
(*             (src/unnamed/part_011)                                      *)
(***************************************************************************)
EXTENDS Integers, Sequences, FiniteSets, TLC

VARIABLES
    purchased_evidence,  \* table purchased_evidence: rows [evidence_id, order_id]
    solved_at,           \* column cases.solved_at, NULL is 0
    case_evidence,       \* table case_evidence: case id -> required evidence ids
    purchases,           \* table purchases: rows [order_id, evidence_ids, case_ids]
    activities,          \* collection activities, in insertion order
    shopify_orders,      \* the storefront's orders: order id -> payload it delivers
    clock,               \* wall clock read by NOW() and new Date()
    req,                 \* the requests in flight, one per slot
    env,                 \* the worker's bindings (which secrets are configured)
    stream,              \* the connection of GET /activity/stream and its timers
    case_analytics       \* table case_analytics: case id -> completions

vars == <<purchased_evidence, solved_at, case_evidence, purchases, activities,
          shopify_orders, clock, req, env, stream, case_analytics>>

----------------------------------------------------------------------------
(* Bounds *)

MaxTime == 2
MaxOrders == 2
MaxItems == 2
MaxActivities == 1

----------------------------------------------------------------------------
(* Catalog *)

Cases == {1, 2}
Evidence == {"X", "Y"}
Slots == {1, 2}
OrderIds == 1..MaxOrders
NULL == 0
NaNId == -1

SeedCaseEvidence == [c \in Cases |-> IF c = 1 THEN {"X", "Y"} ELSE {"Y"}]

\* INSERT INTO case_analytics (case_id, views, cart_adds, completions)
\* SELECT id, 0, 0, 0 FROM cases
SeedAnalytics == [c \in Cases |-> 0]

ActivityTypes == {"cart_add", "case_solved"}

RECURSIVE SeqsUpTo(_, _)
SeqsUpTo(S, n) ==
    IF n = 0 THEN {<<>>}
    ELSE LET shorter == SeqsUpTo(S, n - 1)
         IN  shorter \cup {Append(s, x) : s \in shorter, x \in S}

Range(s) == {s[k] : k \in 1..Len(s)}

LineItems == SeqsUpTo(Evidence, MaxItems) \ {<<>>}

\* values of the case_ids note attribute: absent, or a comma separated text given
\* as what parseInt reads from each piece (a case id, or NaN):
\* "", "x", "1", "2", "1,2", "1,x"
NoAttr == [present |-> FALSE, value |-> <<>>]
CaseIdsAttrs ==
    {NoAttr} \cup {[present |-> TRUE, value |-> v] :
                      v \in {<<>>, <<NaNId>>, <<1>>, <<2>>, <<1, 2>>, <<1, NaNId>>}}

NoOrder == [created |-> FALSE, line_items |-> <<>>, case_ids |-> NoAttr]

----------------------------------------------------------------------------
(* Requests *)

\* env.MONGODB_DATA_API_URL && env.MONGODB_API_KEY
Envs == [mongodb_configured : BOOLEAN]

\* no connection of GET /activity/stream has been made
NoStream ==
    [state |-> "none", mock |-> FALSE, connected |-> 0, lastTimestamp |-> 0,
     age |-> 0, nextPoll |-> 0, cancelled |-> FALSE, polls |-> <<>>,
     sent |-> <<>>, counts |-> <<>>, owed |-> {}, unhandled |-> FALSE,
     errors |-> 0, pending |-> {}]

IdleReq ==
    [op |-> "none", pc |-> "idle", order |-> 0, dup |-> FALSE, i |-> 0,
     solvedCaseIds |-> {}, status |-> 0, success |-> FALSE, error |-> "none",
     body |-> {}]

Init ==
    /\ purchased_evidence = {}
    /\ solved_at = [c \in Cases |-> NULL]
    /\ case_evidence = SeedCaseEvidence
    /\ purchases = {}
    /\ activities = <<>>
    /\ shopify_orders = [o \in OrderIds |-> NoOrder]
    /\ clock = 1
    /\ req = [p \in Slots |-> IdleReq]
    /\ env = [mongodb_configured |-> TRUE]
    /\ stream = NoStream
    /\ case_analytics = SeedAnalytics

Tick ==
    /\ clock < MaxTime
    /\ clock' = clock + 1
    /\ UNCHANGED <<purchased_evidence, solved_at, case_evidence, purchases,
                   activities, shopify_orders, req, env, stream,
                   case_analytics>>

\* a request is given the first free slot (slots are names of requests in flight)
Free(p) == req[p].pc = "idle" /\ \A q \in Slots : q < p => req[q].pc # "idle"

\* jsonResponse(data, status)
Respond(r, status, success, error) ==
    [r EXCEPT !.pc = "done", !.i = 0, !.status = status, !.success = success,
              !.error = error]

\* the catch of fetch: any exception becomes a 500
WorkerError(r, error) == Respond(r, 500, FALSE, error)

\* the client has read the response; the slot is free for the next request
Ack(p) ==
    /\ req[p].pc = "done"
    /\ req' = [req EXCEPT ![p] = IdleReq]
    /\ UNCHANGED <<purchased_evidence, solved_at, case_evidence, purchases,
                   activities, shopify_orders, clock, env, stream,
                   case_analytics>>

\* the storefront completes a checkout: from now on it delivers this order, with
\* this payload, to /webhook/order at least once (order ids are given out in turn)
PlaceOrder(o, items, attr) ==
    /\ ~shopify_orders[o].created
    /\ \A o2 \in OrderIds : o2 < o => shopify_orders[o2].created
    /\ shopify_orders' =
           [shopify_orders EXCEPT ![o] =
               [created |-> TRUE, line_items |-> items, case_ids |-> attr]]
    /\ UNCHANGED <<purchased_evidence, solved_at, case_evidence, purchases,
                   activities, clock, req, env, stream, case_analytics>>

\* the order has produced a purchases row before this delivery of it arrives (kept
\* with the request for the statements about redelivery; no handler reads it)
AlreadyProcessed(o) == \E row \in purchases : row.order_id = o

----------------------------------------------------------------------------
(* handleOrderWebhook of the ledger worker *)

LedgerSet == {row.evidence_id : row \in purchased_evidence}

\* order.line_items.map(item => item.product_id.toString())
EvidenceIds(o) == shopify_orders[o].line_items

\* mutant: the row is keyed by the order (ON CONFLICT (order_id) DO UPDATE), so an
\* order's second evidence id replaces its first
InsertPurchasedEvidencePerOrder(table, evidenceId, orderId) ==
    IF \E row \in table : row.evidence_id = evidenceId
    THEN [table |-> table, error |-> "none"]
    ELSE [table |-> {row \in table : row.order_id # orderId}
                      \cup {[evidence_id |-> evidenceId, order_id |-> orderId]},
          error |-> "none"]

\* mutant: ON CONFLICT (evidence_id) DO UPDATE SET order_id = EXCLUDED.order_id
InsertPurchasedEvidenceOverwrite(table, evidenceId, orderId) ==
    [table |-> {row \in table : row.evidence_id # evidenceId}
                 \cup {[evidence_id |-> evidenceId, order_id |-> orderId]},
     error |-> "none"]

\* mutant: INSERT INTO purchased_evidence ... without the ON CONFLICT clause
InsertPurchasedEvidenceNoConflictClause(table, evidenceId, orderId) ==
    IF \E row \in table : row.evidence_id = evidenceId
    THEN [table |-> table, error |-> "unique_violation"]
    ELSE [table |-> table \cup {[evidence_id |-> evidenceId, order_id |-> orderId]},
          error |-> "none"]

\* INSERT INTO purchased_evidence (evidence_id, order_id) VALUES ($1, $2)
\* ON CONFLICT (evidence_id) DO NOTHING
InsertPurchasedEvidence(table, evidenceId, orderId) ==
    IF \E row \in table : row.evidence_id = evidenceId
    THEN [table |-> table, error |-> "none"]
    ELSE [table |-> table \cup {[evidence_id |-> evidenceId, order_id |-> orderId]},
          error |-> "none"]

\* SELECT c.id, array_agg(ce.evidence_id) as required ... WHERE c.solved_at IS NULL
UnsolvedCases(col) == {c \in Cases : col[c] = NULL}

\* c.required.every(req => evidenceIds.includes(req))
AllPurchased(required, evidenceIds) == \A r \in required : r \in Range(evidenceIds)

\* for (const c of cases) if (allPurchased) solvedCaseIds.push(c.id)
SolvedCaseIds(cases, evidenceIds) ==
    {c \in cases : AllPurchased(case_evidence[c], evidenceIds)}

\* mutant: SET solved_at = CASE WHEN id = ANY($1) THEN NOW() END over every row
UpdateCasesSolvedOrNull(col, ids, now) ==
    [c \in Cases |-> IF c \in ids THEN now ELSE NULL]

\* UPDATE cases SET solved_at = NOW() WHERE id = ANY($1)
UpdateCasesSolved(col, ids, now) ==
    [c \in Cases |-> IF c \in ids THEN now ELSE col[c]]

\* const order = await request.json(); evidenceIds = order.line_items.map(...)
OrderWebhook(p, o) ==
    /\ Free(p)
    /\ shopify_orders[o].created
    /\ req' = [req EXCEPT ![p] =
           [IdleReq EXCEPT !.op = "webhook", !.pc = "insert", !.order = o,
                           !.dup = AlreadyProcessed(o), !.i = 1]]
    /\ UNCHANGED <<purchased_evidence, solved_at, case_evidence, purchases,
                   activities, shopify_orders, clock, env, stream,
                   case_analytics>>

\* one pass of: for (const evidenceId of evidenceIds) await queryNeon(INSERT ...)
WebhookInsert(p) ==
    /\ req[p].op = "webhook" /\ req[p].pc = "insert"
    /\ req[p].i <= Len(EvidenceIds(req[p].order))
    /\ LET res == InsertPurchasedEvidence(purchased_evidence,
                       EvidenceIds(req[p].order)[req[p].i], req[p].order)
       IN  IF res.error = "none"
           THEN /\ purchased_evidence' = res.table
                /\ req' = [req EXCEPT ![p].i = @ + 1]
           ELSE /\ purchased_evidence' = purchased_evidence
                /\ req' = [req EXCEPT ![p] = WorkerError(@, res.error)]
    /\ UNCHANGED <<solved_at, case_evidence, purchases, activities,
                   shopify_orders, clock, env, stream, case_analytics>>

\* cases = await queryNeon(SELECT ...); the loop that fills solvedCaseIds; with
\* none solved the response follows without another await
WebhookSelect(p) ==
    /\ req[p].op = "webhook" /\ req[p].pc = "insert"
    /\ req[p].i > Len(EvidenceIds(req[p].order))
    /\ LET solved == SolvedCaseIds(UnsolvedCases(solved_at), EvidenceIds(req[p].order))
       IN  req' = [req EXCEPT ![p] =
               IF solved = {}
               THEN Respond(@, 200, TRUE, "none")
               ELSE [@ EXCEPT !.pc = "update", !.i = 0, !.solvedCaseIds = solved]]
    /\ UNCHANGED <<purchased_evidence, solved_at, case_evidence, purchases,
                   activities, shopify_orders, clock, env, stream,
                   case_analytics>>

\* await queryNeon(UPDATE cases ...); return jsonResponse({success: true, ...})
WebhookUpdate(p) ==
    /\ req[p].op = "webhook" /\ req[p].pc = "update"
    /\ solved_at' = UpdateCasesSolved(solved_at, req[p].solvedCaseIds, clock)
    /\ req' = [req EXCEPT ![p] = Respond(@, 200, TRUE, "none")]
    /\ UNCHANGED <<purchased_evidence, case_evidence, purchases, activities,
                   shopify_orders, clock, env, stream, case_analytics>>

\* a query that Neon does not answer: queryNeon throws, fetch answers 500
WebhookQueryFails(p) ==
    /\ req[p].op = "webhook" /\ req[p].pc \in {"insert", "update"}
    /\ req' = [req EXCEPT ![p] = WorkerError(@, "query_failed")]
    /\ UNCHANGED <<purchased_evidence, solved_at, case_evidence, purchases,
                   activities, shopify_orders, clock, env, stream,
                   case_analytics>>

----------------------------------------------------------------------------
(* The other routes of the ledger worker *)

\* mutant: the first statement deletes no row (DELETE ... WHERE FALSE)
ResetProgressKeepsLedger(p) ==
    /\ Free(p)
    /\ req' = [req EXCEPT ![p] = [IdleReq EXCEPT !.op = "reset", !.pc = "reset_cases"]]
    /\ UNCHANGED <<purchased_evidence, solved_at, case_evidence, purchases,
                   activities, shopify_orders, clock, env, stream,
                   case_analytics>>

\* POST /reset-progress, first statement: DELETE FROM purchased_evidence
ResetProgress(p) ==
    /\ Free(p)
    /\ purchased_evidence' = {}
    /\ req' = [req EXCEPT ![p] = [IdleReq EXCEPT !.op = "reset", !.pc = "reset_cases"]]
    /\ UNCHANGED <<solved_at, case_evidence, purchases, activities,
                   shopify_orders, clock, env, stream, case_analytics>>

\* POST /reset-progress, second statement: UPDATE cases SET solved_at = NULL
ResetCases(p) ==
    /\ req[p].op = "reset" /\ req[p].pc = "reset_cases"
    /\ solved_at' = [c \in Cases |-> NULL]
    /\ req' = [req EXCEPT ![p] = Respond(@, 200, TRUE, "none")]
    /\ UNCHANGED <<purchased_evidence, case_evidence, purchases, activities,
                   shopify_orders, clock, env, stream, case_analytics>>

\* GET /purchased-evidence: SELECT evidence_id FROM purchased_evidence
GetPurchasedEvidence(p) ==
    /\ Free(p)
    /\ req' = [req EXCEPT ![p] =
           Respond([IdleReq EXCEPT !.op = "purchased_evidence", !.body = LedgerSet],
                   200, TRUE, "none")]
    /\ UNCHANGED <<purchased_evidence, solved_at, case_evidence, purchases,
                   activities, shopify_orders, clock, env, stream,
                   case_analytics>>

\* GET /cases (handleGetCases), GET /metrics (handleGetMetrics), POST /checkout
\* (handleCreateCheckout): SELECTs and calls to the storefront only
ReadOnly(p, op) ==
    /\ Free(p)
    /\ req' = [req EXCEPT ![p] = Respond([IdleReq EXCEPT !.op = op], 200, TRUE, "none")]
    /\ UNCHANGED <<purchased_evidence, solved_at, case_evidence, purchases,
                   activities, shopify_orders, clock, env, stream,
                   case_analytics>>

\* POST /activity (handlePostActivity): insertOne({...activity, timestamp, worker_id})
PostActivity(p, type) ==
    /\ Free(p)
    /\ Len(activities) < MaxActivities
    /\ activities' = Append(activities,
           [type |-> type, timestamp |-> clock, case_ids |-> {}, order_id |-> 0])
    /\ req' = [req EXCEPT ![p] =
           Respond([IdleReq EXCEPT !.op = "activity"], 200, TRUE, "none")]
    /\ UNCHANGED <<purchased_evidence, solved_at, case_evidence, purchases,
                   shopify_orders, clock, env, stream, case_analytics>>

Next ==
    \/ Tick
    \/ \E o \in OrderIds, items \in LineItems : PlaceOrder(o, items, NoAttr)
    \/ \E p \in Slots, o \in OrderIds : OrderWebhook(p, o)
    \/ \E p \in Slots : WebhookInsert(p)
    \/ \E p \in Slots : WebhookSelect(p)
    \/ \E p \in Slots : WebhookUpdate(p)
    \/ \E p \in Slots : WebhookQueryFails(p)
    \/ \E p \in Slots : ResetProgress(p)
    \/ \E p \in Slots : ResetCases(p)
    \/ \E p \in Slots : GetPurchasedEvidence(p)
    \/ \E p \in Slots, op \in {"cases", "metrics", "checkout"} : ReadOnly(p, op)
    \/ \E p \in Slots, type \in ActivityTypes : PostActivity(p, type)
    \/ \E p \in Slots : Ack(p)

Spec == Init /\ [][Next]_vars

----------------------------------------------------------------------------
(* handleOrderWebhook of the worker that writes purchases *)

\* caseIdsAttr.value.split(',').map(id => parseInt(id.trim())).filter(id => !isNaN(id))
ParseCaseIds(value) == SelectSeq(value, LAMBDA t : t # NaNId)

\* !caseIdsAttr?.value : no such attribute, or an empty text
NoCaseIdsValue(attr) == ~attr.present \/ attr.value = <<>>

\* UPDATE cases SET solved_at = NOW() WHERE id = ANY($1::int[]) AND solved_at IS NULL
UpdateCasesIfUnsolved(col, ids, now) ==
    [c \in Cases |-> IF c \in ids /\ col[c] = NULL THEN now ELSE col[c]]

\* INSERT INTO purchases (order_id, evidence_ids, case_ids, total_amount) VALUES (...)
\* against order_id VARCHAR(100) UNIQUE NOT NULL
InsertPurchase(table, orderId, productIds, caseIds) ==
    IF \E row \in table : row.order_id = orderId
    THEN [table |-> table, error |-> "unique_violation"]
    ELSE [table |-> table \cup {[order_id |-> orderId, evidence_ids |-> productIds,
                                 case_ids |-> caseIds]},
          error |-> "none"]

\* request.json(), the two early returns ("so Shopify doesn't retry"), caseIds
OrdersWebhook(p, o) ==
    /\ Free(p)
    /\ shopify_orders[o].created
    /\ LET attr == shopify_orders[o].case_ids
           r == [IdleReq EXCEPT !.op = "webhook", !.order = o,
                                !.dup = AlreadyProcessed(o)]
       IN  req' = [req EXCEPT ![p] =
               IF NoCaseIdsValue(attr) THEN Respond(r, 200, TRUE, "no_case_ids")
               ELSE IF ParseCaseIds(attr.value) = <<>>
                    THEN Respond(r, 200, TRUE, "invalid_case_ids")
                    ELSE [r EXCEPT !.pc = "update"]]
    /\ UNCHANGED <<purchased_evidence, solved_at, case_evidence, purchases,
                   activities, shopify_orders, clock, env, stream,
                   case_analytics>>

CaseIdsOf(o) == ParseCaseIds(shopify_orders[o].case_ids.value)

\* await sql`UPDATE cases ...`
OrdersUpdate(p) ==
    /\ req[p].op = "webhook" /\ req[p].pc = "update"
    /\ solved_at' = UpdateCasesIfUnsolved(solved_at, Range(CaseIdsOf(req[p].order)), clock)
    /\ req' = [req EXCEPT ![p].pc = "purchase"]
    /\ UNCHANGED <<purchased_evidence, case_evidence, purchases, activities,
                   shopify_orders, clock, env, stream, case_analytics>>

\* await sql`INSERT INTO purchases ...`
OrdersInsertPurchase(p) ==
    /\ req[p].op = "webhook" /\ req[p].pc = "purchase"
    /\ LET res == InsertPurchase(purchases, req[p].order, EvidenceIds(req[p].order),
                                 CaseIdsOf(req[p].order))
       IN  /\ purchases' = res.table
           /\ req' = [req EXCEPT ![p] =
                  IF res.error = "none" THEN [@ EXCEPT !.pc = "activity"]
                  ELSE WorkerError(@, res.error)]
    /\ UNCHANGED <<purchased_evidence, solved_at, case_evidence, activities,
                   shopify_orders, clock, env, stream, case_analytics>>

\* await queryMongoDB(env, 'activities', 'insertOne', {type: 'case_solved', ...});
\* return jsonResponse({success: true, cases_solved: caseIds.length, ...})
OrdersLogSolved(p) ==
    /\ req[p].op = "webhook" /\ req[p].pc = "activity"
    /\ activities' = Append(activities,
           [type |-> "case_solved", timestamp |-> clock,
            case_ids |-> Range(CaseIdsOf(req[p].order)), order_id |-> req[p].order])
    /\ req' = [req EXCEPT ![p] =
           Respond([@ EXCEPT !.solvedCaseIds = Range(CaseIdsOf(req[p].order))],
                   200, TRUE, "none")]
    /\ UNCHANGED <<purchased_evidence, solved_at, case_evidence, purchases,
                   shopify_orders, clock, env, stream, case_analytics>>

\* a statement that Neon or the Data API does not answer: the call throws
OrdersQueryFails(p) ==
    /\ req[p].op = "webhook" /\ req[p].pc \in {"update", "purchase", "activity"}
    /\ req' = [req EXCEPT ![p] = WorkerError(@, "query_failed")]
    /\ UNCHANGED <<purchased_evidence, solved_at, case_evidence, purchases,
                   activities, shopify_orders, clock, env, stream,
                   case_analytics>>

OneItem == SeqsUpTo(Evidence, 1) \ {<<>>}

NextOrders ==
    \/ Tick
    \/ \E o \in OrderIds, items \in OneItem, attr \in CaseIdsAttrs :
           PlaceOrder(o, items, attr)
    \/ \E p \in Slots, o \in OrderIds : OrdersWebhook(p, o)
    \/ \E p \in Slots : OrdersUpdate(p)
    \/ \E p \in Slots : OrdersInsertPurchase(p)
    \/ \E p \in Slots : OrdersLogSolved(p)
    \/ \E p \in Slots : OrdersQueryFails(p)
    \/ \E p \in Slots : Ack(p)

SpecOrders == Init /\ [][NextOrders]_vars

----------------------------------------------------------------------------
(* The ledger worker on the two-order catalog: case 1 requires {X, Y}, case 2 *)
(* requires {Y, Z}; order 1 conveys X and Y, order 2 conveys Z; webhook calls *)
(* arrive one after the other                                                 *)

ScenarioCaseEvidence == [c \in Cases |-> IF c = 1 THEN {"X", "Y"} ELSE {"Y", "Z"}]

ScenarioItems(o) == IF o = 1 THEN <<"X", "Y">> ELSE <<"Z">>

\* no request is between its first statement and its response
Quiet == \A q \in Slots : req[q].pc \in {"idle", "done"}

\* a delivery that arrives when the one before it has been answered
ScenarioOrderWebhook(p, o) == Quiet /\ OrderWebhook(p, o)

InitScenario ==
    /\ purchased_evidence = {}
    /\ solved_at = [c \in Cases |-> NULL]
    /\ case_evidence = ScenarioCaseEvidence
    /\ purchases = {}
    /\ activities = <<>>
    /\ shopify_orders = [o \in OrderIds |-> NoOrder]
    /\ clock = 1
    /\ req = [p \in Slots |-> IdleReq]
    /\ env = [mongodb_configured |-> TRUE]
    /\ stream = NoStream
    /\ case_analytics = SeedAnalytics

NextScenario ==
    \/ Tick
    \/ \E o \in OrderIds : PlaceOrder(o, ScenarioItems(o), NoAttr)
    \/ \E p \in Slots, o \in OrderIds : ScenarioOrderWebhook(p, o)
    \/ \E p \in Slots : WebhookInsert(p)
    \/ \E p \in Slots : WebhookSelect(p)
    \/ \E p \in Slots : WebhookUpdate(p)
    \/ \E p \in Slots : WebhookQueryFails(p)
    \/ \E p \in Slots : Ack(p)

SpecScenario == InitScenario /\ [][NextScenario]_vars

----------------------------------------------------------------------------
(* The worker with the MongoDB Data API (src/unnamed/part_010, lines 433 on): *)
(* the activity log, its analytics, and the order webhook that logs to it     *)

MaxLog == 2

FindLimit == 10
RecentLimit == 20
TopCasesLimit == 5
TopEvidenceLimit == 10

\* values of the case_ids note attribute as JSON.parse reads them: absent, or the
\* texts "[]", "[1]", "[2]", "[1,2]", or a text that is not JSON
JsonCaseIdsAttrs ==
    {NoAttr} \cup {[present |-> TRUE, value |-> v] :
                      v \in {<<>>, <<1>>, <<2>>, <<1, 2>>, <<NaNId>>}}

\* caseIdsAttr ? JSON.parse(caseIdsAttr.value) : []
JsonParseCaseIds(attr) ==
    IF ~attr.present THEN [value |-> <<>>, error |-> "none"]
    ELSE IF NaNId \in Range(attr.value) THEN [value |-> <<>>, error |-> "syntax_error"]
    ELSE [value |-> attr.value, error |-> "none"]

\* what a client posts to /activity
PostedActivities ==
    {[type |-> "case_viewed", data |-> [case_id |-> 1]],
     [type |-> "cart_add", data |-> [evidence_id |-> "X"]]}

\* the appends that requests in flight may still make fit in the log
LogRoom ==
    Len(activities) + Cardinality({q \in Slots : req[q].pc \notin {"idle", "done"}})
        < MaxLog

\* mutant: a response that is not ok is taken for an insert
MongoInsertUnchecked(coll, document, configured, ok) ==
    IF configured /\ ok
    THEN [coll |-> Append(coll, document), error |-> "none"]
    ELSE [coll |-> coll, error |-> "none"]

\* mutant: updateOne({type}, {$set: document}, {upsert: true}) in place of insertOne
MongoUpsertByType(coll, document, configured, ok) ==
    IF ~configured THEN [coll |-> coll, error |-> "none"]
    ELSE IF ~ok THEN [coll |-> coll, error |-> "insert_failed"]
    ELSE IF \E k \in DOMAIN coll : coll[k].type = document.type
         THEN [coll |-> [k \in DOMAIN coll |->
                            IF coll[k].type = document.type THEN document ELSE coll[k]],
               error |-> "none"]
         ELSE [coll |-> Append(coll, document), error |-> "none"]

\* mongoInsert: skipped when the Data API is not configured, throws when the Data
\* API's response is not ok
MongoInsert(coll, document, configured, ok) ==
    IF ~configured THEN [coll |-> coll, error |-> "none"]
    ELSE IF ~ok THEN [coll |-> coll, error |-> "insert_failed"]
    ELSE [coll |-> Append(coll, document), error |-> "none"]

Min(a, b) == IF a <= b THEN a ELSE b

Take(s, n) == SubSeq(s, 1, Min(n, Len(s)))

\* the positions S of the log by timestamp, oldest first (equal timestamps in the
\* order of insertion)
RECURSIVE SortByTimestamp(_, _)
SortByTimestamp(coll, S) ==
    IF S = {} THEN <<>>
    ELSE LET k == CHOOSE k \in S : \A j \in S :
                      \/ coll[k].timestamp < coll[j].timestamp
                      \/ coll[k].timestamp = coll[j].timestamp /\ k <= j
         IN  <<k>> \o SortByTimestamp(coll, S \ {k})

Reverse(s) == [k \in 1..Len(s) |-> s[Len(s) + 1 - k]]

\* groups [id, n] by n, largest first
RECURSIVE RankDesc(_)
RankDesc(G) ==
    IF G = {} THEN <<>>
    ELSE LET g == CHOOSE g \in G : \A h \in G : h.n <= g.n
         IN  <<g>> \o RankDesc(G \ {g})

\* mongoFind(env, 'activities', {timestamp: {$gt: since}}, {sort: {timestamp: 1},
\* limit: 10}): positions in the log
FindSince(coll, since) ==
    Take(SortByTimestamp(coll, {k \in DOMAIN coll : coll[k].timestamp > since}),
         FindLimit)

\* mongoFind(env, 'activities', {}, {sort: {timestamp: -1}, limit: 20})
FindRecent(coll) ==
    Take(Reverse(SortByTimestamp(coll, DOMAIN coll)), RecentLimit)

\* $match {type: 'case_viewed', timestamp >= since}, $group by data.case_id,
\* $sort {views: -1}, $limit 5
TopCases(coll, since) ==
    LET hits == {k \in DOMAIN coll :
                    coll[k].type = "case_viewed" /\ coll[k].timestamp >= since}
        ids == {coll[k].data.case_id : k \in hits}
    IN  Take(RankDesc({[id |-> c,
                        n |-> Cardinality({k \in hits : coll[k].data.case_id = c})] :
                          c \in ids}),
             TopCasesLimit)

\* $match {type: 'cart_add', timestamp >= since}, $group by data.evidence_id,
\* $sort {adds: -1}, $limit 10
TopEvidence(coll, since) ==
    LET hits == {k \in DOMAIN coll :
                    coll[k].type = "cart_add" /\ coll[k].timestamp >= since}
        ids == {coll[k].data.evidence_id : k \in hits}
    IN  Take(RankDesc({[id |-> e,
                        n |-> Cardinality({k \in hits : coll[k].data.evidence_id = e})] :
                          e \in ids}),
             TopEvidenceLimit)

\* $match {timestamp >= since}, $group by type, $sort {count: -1}
ActivityTypeCounts(coll, since) ==
    LET hits == {k \in DOMAIN coll : coll[k].timestamp >= since}
        types == {coll[k].type : k \in hits}
    IN  RankDesc({[id |-> t, n |-> Cardinality({k \in hits : coll[k].type = t})] :
                     t \in types})

EmptyAnalytics ==
    [recent_activities |-> <<>>, top_cases |-> <<>>, top_evidence |-> <<>>,
     activity_types |-> <<>>]

\* the body handleActivityAnalytics builds from the four results
AnalyticsBody(coll, since) ==
    [recent_activities |-> [k \in 1..Len(FindRecent(coll)) |-> coll[FindRecent(coll)[k]]],
     top_cases |-> TopCases(coll, since),
     top_evidence |-> TopEvidence(coll, since),
     activity_types |-> ActivityTypeCounts(coll, since)]

\* mutant: the handler records that the analytics were read as an event of the log
AnalyticsLogsRead(p, ok, since) ==
    /\ Free(p)
    /\ since <= clock
    /\ req' = [req EXCEPT ![p] =
           Respond([IdleReq EXCEPT !.op = "analytics",
                                   !.body = AnalyticsBody(activities, since)],
                   200, TRUE, "none")]
    /\ activities' = Append(activities,
           [type |-> "analytics_viewed", timestamp |-> clock, data |-> [since |-> since]])
    /\ UNCHANGED <<purchased_evidence, solved_at, case_evidence, purchases,
                   shopify_orders, clock, env, stream, case_analytics>>

\* GET /activity/analytics (handleActivityAnalytics); since is oneDayAgo, ok is
\* whether the Data API answers the four reads; an unconfigured worker reads
\* {documents: []}
Analytics(p, ok, since) ==
    /\ Free(p)
    /\ since <= clock
    /\ req' = [req EXCEPT ![p] =
           IF env.mongodb_configured /\ ~ok
           THEN WorkerError([IdleReq EXCEPT !.op = "analytics",
                                            !.body = EmptyAnalytics], "read_failed")
           ELSE Respond([IdleReq EXCEPT !.op = "analytics", !.body =
                    AnalyticsBody(IF env.mongodb_configured THEN activities ELSE <<>>,
                                  since)],
                        200, TRUE, "none")]
    /\ UNCHANGED <<purchased_evidence, solved_at, case_evidence, purchases,
                   activities, shopify_orders, clock, env, stream,
                   case_analytics>>

\* POST /activity (handlePostActivity): activity = await request.json(); the
\* document {...activity, timestamp: new Date(), worker_id} is sent to the Data API
MongoPostActivity(p, activity) ==
    /\ Free(p)
    /\ LogRoom
    /\ req' = [req EXCEPT ![p] =
           [IdleReq EXCEPT !.op = "activity", !.pc = "insert",
               !.body = [type |-> activity.type, timestamp |-> clock,
                         data |-> activity.data]]]
    /\ UNCHANGED <<purchased_evidence, solved_at, case_evidence, purchases,
                   activities, shopify_orders, clock, env, stream,
                   case_analytics>>

\* the insert reaches the log (or fails) and the request is answered; an open
\* connection is owed the event when its timestamp is beyond the watermark
MongoPostInsert(p, ok) ==
    /\ req[p].op = "activity" /\ req[p].pc = "insert"
    /\ LET res == MongoInsert(activities, req[p].body, env.mongodb_configured, ok)
       IN  /\ activities' = res.coll
           /\ req' = [req EXCEPT ![p] =
                  IF res.error = "none" THEN Respond([@ EXCEPT !.body = {}], 200, TRUE, "none")
                  ELSE WorkerError([@ EXCEPT !.body = {}], res.error)]
           /\ stream' =
                  IF /\ stream.state = "open" /\ Len(res.coll) > Len(activities)
                     /\ req[p].body.timestamp > stream.lastTimestamp
                  THEN [stream EXCEPT !.owed = @ \cup {Len(res.coll)}]
                  ELSE stream
    /\ UNCHANGED <<purchased_evidence, solved_at, case_evidence, purchases,
                   shopify_orders, clock, env, case_analytics>>

JsonCaseIdsOf(o) == JsonParseCaseIds(shopify_orders[o].case_ids).value

\* handleOrderWebhook of this worker: request.json(), JSON.parse of the case_ids
\* attribute (a SyntaxError goes to the handler's catch), the early return
MongoOrderWebhook(p, o) ==
    /\ Free(p)
    /\ LogRoom
    /\ shopify_orders[o].created
    /\ LET parsed == JsonParseCaseIds(shopify_orders[o].case_ids)
           r == [IdleReq EXCEPT !.op = "webhook", !.order = o]
       IN  req' = [req EXCEPT ![p] =
               IF parsed.error # "none" THEN WorkerError(r, parsed.error)
               ELSE IF Len(parsed.value) = 0 THEN Respond(r, 200, TRUE, "none")
               ELSE [r EXCEPT !.pc = "update"]]
    /\ UNCHANGED <<purchased_evidence, solved_at, case_evidence, purchases,
                   activities, shopify_orders, clock, env, stream,
                   case_analytics>>

\* await queryNeon(UPDATE cases SET solved_at = NOW() WHERE id = ANY($1))
MongoUpdate(p) ==
    /\ req[p].op = "webhook" /\ req[p].pc = "update"
    /\ solved_at' = UpdateCasesSolved(solved_at, Range(JsonCaseIdsOf(req[p].order)), clock)
    /\ req' = [req EXCEPT ![p].pc = "activity"]
    /\ UNCHANGED <<purchased_evidence, case_evidence, purchases, activities,
                   shopify_orders, clock, env, stream, case_analytics>>

\* await mongoInsert(env, 'activities', {type: 'case_solved', ...}); the response,
\* or the catch when the insert throws
MongoLogSolved(p, ok) ==
    /\ req[p].op = "webhook" /\ req[p].pc = "activity"
    /\ LET caseIds == JsonCaseIdsOf(req[p].order)
           res == MongoInsert(activities,
                      [type |-> "case_solved", timestamp |-> clock,
                       data |-> [case_ids |-> caseIds, order_id |-> req[p].order]],
                      env.mongodb_configured, ok)
       IN  /\ activities' = res.coll
           /\ req' = [req EXCEPT ![p] =
                  IF res.error = "none"
                  THEN Respond([@ EXCEPT !.solvedCaseIds = Range(caseIds)],
                               200, TRUE, "none")
                  ELSE WorkerError(@, res.error)]
    /\ UNCHANGED <<purchased_evidence, solved_at, case_evidence, purchases,
                   shopify_orders, clock, env, stream, case_analytics>>

\* the UPDATE is not answered: queryNeon throws, the handler's catch answers 500
MongoQueryFails(p) ==
    /\ req[p].op = "webhook" /\ req[p].pc = "update"
    /\ req' = [req EXCEPT ![p] = WorkerError(@, "query_failed")]
    /\ UNCHANGED <<purchased_evidence, solved_at, case_evidence, purchases,
                   activities, shopify_orders, clock, env, stream,
                   case_analytics>>

InitMongo ==
    /\ purchased_evidence = {}
    /\ solved_at = [c \in Cases |-> NULL]
    /\ case_evidence = SeedCaseEvidence
    /\ purchases = {}
    /\ activities = <<>>
    /\ shopify_orders = [o \in OrderIds |-> NoOrder]
    /\ clock = 1
    /\ req = [p \in Slots |-> IdleReq]
    /\ env \in Envs
    /\ stream = NoStream
    /\ case_analytics = SeedAnalytics

NextMongo ==
    \/ Tick
    \/ \E o \in OrderIds, attr \in JsonCaseIdsAttrs :
           PlaceOrder(o, <<"X">>, attr)
    \/ \E p \in Slots, o \in OrderIds : MongoOrderWebhook(p, o)
    \/ \E p \in Slots : MongoUpdate(p)
    \/ \E p \in Slots, ok \in BOOLEAN : MongoLogSolved(p, ok)
    \/ \E p \in Slots : MongoQueryFails(p)
    \/ \E p \in Slots, activity \in PostedActivities : MongoPostActivity(p, activity)
    \/ \E p \in Slots, ok \in BOOLEAN : MongoPostInsert(p, ok)
    \/ \E p \in Slots, ok \in BOOLEAN, since \in 0..MaxTime : Analytics(p, ok, since)
    \/ \E p \in Slots : Ack(p)

SpecMongo == InitMongo /\ [][NextMongo]_vars

----------------------------------------------------------------------------
(* GET /activity/stream (handleActivityStream): one connection, its interval  *)
(* timer, the poll cycles the timer starts and the timeout that ends it. The  *)
(* connection's age is the due time of the last timer that fired; clock is    *)
(* the time the log's timestamps are read from.                               *)

MaxOverlap == 2

PollIntervalMs == 3000
StreamLifetimeMs == 300000
MockIntervalMs == 5000
MockLifetimeMs == 60000

StreamInterval == IF stream.mock THEN MockIntervalMs ELSE PollIntervalMs
StreamLifetime == IF stream.mock THEN MockLifetimeMs ELSE StreamLifetimeMs

RemoveAt(s, k) == SubSeq(s, 1, k - 1) \o SubSeq(s, k + 1, Len(s))

\* handleActivityStream: lastTimestamp = new Date(Date.now() - 10000), which is
\* some time w before now; start() sends 'connected' with timestamp new Date() and
\* sets the timers (the mock ones when the Data API is not configured)
StreamConnect(w) ==
    /\ stream.state = "none"
    /\ w < clock
    /\ stream' = [NoStream EXCEPT !.state = "open",
                                  !.mock = ~env.mongodb_configured,
                                  !.connected = clock,
                                  !.lastTimestamp = w,
                                  !.nextPoll = IF env.mongodb_configured
                                               THEN PollIntervalMs ELSE MockIntervalMs]
    /\ UNCHANGED <<purchased_evidence, solved_at, case_evidence, purchases,
                   activities, shopify_orders, clock, req, env, case_analytics>>

\* the mock interval fires: a connection_count message with a random count
MockTick ==
    /\ stream.state # "none" /\ stream.mock /\ ~stream.cancelled
    /\ stream.nextPoll <= StreamLifetime
    /\ stream' = [stream EXCEPT !.age = stream.nextPoll,
                                !.nextPoll = @ + MockIntervalMs]
    /\ UNCHANGED <<purchased_evidence, solved_at, case_evidence, purchases,
                   activities, shopify_orders, clock, req, env, case_analytics>>

\* the interval fires: the callback builds the filter from lastTimestamp and
\* awaits mongoFind; callbacks of earlier firings may still be awaiting
PollStart ==
    /\ stream.state # "none" /\ ~stream.mock /\ ~stream.cancelled
    /\ stream.nextPoll <= StreamLifetime
    /\ Len(stream.polls) < MaxOverlap
    /\ stream' = [stream EXCEPT
           !.age = stream.nextPoll,
           !.nextPoll = @ + PollIntervalMs,
           !.polls = Append(@, [pc |-> "find", since |-> stream.lastTimestamp,
                                result |-> <<>>])]
    /\ UNCHANGED <<purchased_evidence, solved_at, case_evidence, purchases,
                   activities, shopify_orders, clock, req, env, case_analytics>>

\* the Data API runs the find of cycle k
PollQuery(k) ==
    /\ k \in DOMAIN stream.polls /\ stream.polls[k].pc = "find"
    /\ stream' = [stream EXCEPT !.polls[k] =
           [@ EXCEPT !.pc = "found",
                     !.result = FindSince(activities, stream.polls[k].since)]]
    /\ UNCHANGED <<purchased_evidence, solved_at, case_evidence, purchases,
                   activities, shopify_orders, clock, req, env, case_analytics>>

\* the find's response reaches cycle k: each activity is enqueued, lastTimestamp
\* becomes the last one's timestamp, mongoAggregate is awaited. On a closed stream
\* the first enqueue throws, and so does the enqueue in the catch: the cycle ends
\* and the callback's promise is rejected with nothing to handle it
PollResult(k) ==
    /\ k \in DOMAIN stream.polls /\ stream.polls[k].pc = "found"
    /\ LET result == stream.polls[k].result
       IN  stream' =
             IF result = <<>> THEN [stream EXCEPT !.polls[k].pc = "count"]
             ELSE IF stream.state = "closed"
                  THEN [stream EXCEPT !.polls = RemoveAt(@, k), !.unhandled = TRUE]
                  ELSE [stream EXCEPT
                           !.sent = @ \o result,
                           !.lastTimestamp = activities[result[Len(result)]].timestamp,
                           !.polls[k].pc = "count"]
    /\ UNCHANGED <<purchased_evidence, solved_at, case_evidence, purchases,
                   activities, shopify_orders, clock, req, env, case_analytics>>

\* cycle k ends, by the aggregate's response (connection_count is enqueued) or by
\* a read that throws (the catch enqueues an 'error' message); what it enqueues is
\* not kept. On a closed stream either enqueue throws, the second of them in or
\* after the catch
PollEnd(k) ==
    /\ k \in DOMAIN stream.polls /\ stream.polls[k].pc \in {"find", "count"}
    /\ stream' = [stream EXCEPT !.polls = RemoveAt(@, k),
                                !.unhandled = @ \/ stream.state = "closed"]
    /\ UNCHANGED <<purchased_evidence, solved_at, case_evidence, purchases,
                   activities, shopify_orders, clock, req, env, case_analytics>>

\* mutant: the timeout closes the stream and leaves the interval set
StreamTimeoutKeepsInterval ==
    /\ stream.state = "open"
    /\ stream.nextPoll >= StreamLifetime
    /\ stream' = [stream EXCEPT !.state = "closed", !.age = StreamLifetime]
    /\ UNCHANGED <<purchased_evidence, solved_at, case_evidence, purchases,
                   activities, shopify_orders, clock, req, env, case_analytics>>

\* the timeout fires, after every firing of the interval that was due before it:
\* clearInterval(interval); controller.close()
StreamTimeout ==
    /\ stream.state = "open"
    /\ stream.nextPoll >= StreamLifetime
    /\ stream' = [stream EXCEPT !.state = "closed", !.cancelled = TRUE,
                                !.age = StreamLifetime]
    /\ UNCHANGED <<purchased_evidence, solved_at, case_evidence, purchases,
                   activities, shopify_orders, clock, req, env, case_analytics>>

\* the clients of this connection's log post one kind of activity, one at a time
StreamPosted == {a \in PostedActivities : a.type = "cart_add"}

NextStream ==
    \/ Tick
    \/ \E activity \in StreamPosted : MongoPostActivity(1, activity)
    \/ \E ok \in BOOLEAN : MongoPostInsert(1, ok)
    \/ Ack(1)
    \/ \E w \in 0..MaxTime : StreamConnect(w)
    \/ MockTick
    \/ PollStart
    \/ \E k \in 1..MaxOverlap : PollQuery(k)
    \/ \E k \in 1..MaxOverlap : PollResult(k)
    \/ \E k \in 1..MaxOverlap : PollEnd(k)
    \/ StreamTimeout

SpecStream == InitMongo /\ [][NextStream]_vars

----------------------------------------------------------------------------
(* The ledger worker with the reset hook run on its own: POST /reset-progress *)
(* is sent when no request is in flight, and no request is sent before it has *)
(* been answered                                                              *)

ResetInFlight == \E q \in Slots : req[q].op = "reset" /\ req[q].pc = "reset_cases"

QuietOrderWebhook(p, o) == ~ResetInFlight /\ OrderWebhook(p, o)

QuietResetProgress(p) == Quiet /\ ResetProgress(p)

\* the reset's UPDATE is not answered by Neon: queryNeon throws, fetch answers
\* 500 and the DELETE stays
ResetQueryFails(p) ==
    /\ req[p].op = "reset" /\ req[p].pc = "reset_cases"
    /\ req' = [req EXCEPT ![p] = WorkerError(@, "query_failed")]
    /\ UNCHANGED <<purchased_evidence, solved_at, case_evidence, purchases,
                   activities, shopify_orders, clock, env, stream,
                   case_analytics>>

NextQuietReset ==
    \/ Tick
    \/ \E o \in OrderIds, items \in LineItems : PlaceOrder(o, items, NoAttr)
    \/ \E p \in Slots, o \in OrderIds : QuietOrderWebhook(p, o)
    \/ \E p \in Slots : WebhookInsert(p)
    \/ \E p \in Slots : WebhookSelect(p)
    \/ \E p \in Slots : WebhookUpdate(p)
    \/ \E p \in Slots : WebhookQueryFails(p)
    \/ \E p \in Slots : QuietResetProgress(p)
    \/ \E p \in Slots : ResetCases(p)
    \/ \E p \in Slots : ResetQueryFails(p)
    \/ \E p \in Slots : Ack(p)

SpecQuietReset == Init /\ [][NextQuietReset]_vars

----------------------------------------------------------------------------
(* The coverage test on its own: the worker's loop over the unsolved cases    *)
(* (src/unnamed/part_010, lines 390-405) and the storefront's                 *)
(* getEligibleCases (src/frontend/src/App.jsx), applied to purchased lists   *)
(* and requirement lists in every order and with repeated entries. In this   *)
(* specification case_evidence holds each case's requirement list as         *)
(* array_agg delivers it.                                                    *)

\* Array.prototype.includes
Includes(list, x) == \E k \in DOMAIN list : list[k] = x

\* mutant: the requirement list is compared with the purchased list entry by entry
AllPurchasedInOrder(required, evidenceIds) ==
    /\ Len(required) <= Len(evidenceIds)
    /\ \A k \in DOMAIN required : evidenceIds[k] = required[k]

\* c.required.every(req => evidenceIds.includes(req)) on the list required
AllPurchasedOf(required, evidenceIds) ==
    \A k \in DOMAIN required : Includes(evidenceIds, required[k])

\* the rows of SELECT c.id, array_agg(ce.evidence_id) as required ... WHERE
\* c.solved_at IS NULL: the unsolved cases, each with its requirement list
UnsolvedRows(col, lists) == [c \in UnsolvedCases(col) |-> lists[c]]

\* for (const c of cases) if (allPurchased) solvedCaseIds.push(c.id)
SolvedCaseIdsOfRows(rows, evidenceIds) ==
    {c \in DOMAIN rows : AllPurchasedOf(rows[c], evidenceIds)}

\* getEligibleCases: cartIds = new Set(cart.map(e => e.id));
\* cases.filter(c => !c.solved_at && c.required_evidence?.every(id => cartIds.has(id)))
GetEligibleCases(col, lists, cart) ==
    LET cartIds == Range(cart)
    IN  {c \in Cases : col[c] = NULL /\ \A k \in DOMAIN lists[c] : lists[c][k] \in cartIds}

RequiredLists == SeqsUpTo(Evidence, MaxItems) \ {<<>>}

InitCoverage ==
    /\ purchased_evidence = {}
    /\ solved_at \in [Cases -> {NULL, 1}]
    /\ case_evidence \in [Cases -> RequiredLists]
    /\ purchases = {}
    /\ activities = <<>>
    /\ shopify_orders = [o \in OrderIds |-> NoOrder]
    /\ clock = 1
    /\ req = [p \in Slots |-> IdleReq]
    /\ env = [mongodb_configured |-> TRUE]
    /\ stream = NoStream
    /\ case_analytics = SeedAnalytics

\* the worker evaluates the unsolved cases against the evidence list of order o
CoverageTest(p, o) ==
    /\ Free(p)
    /\ shopify_orders[o].created
    /\ req' = [req EXCEPT ![p] =
           Respond([IdleReq EXCEPT !.op = "coverage", !.order = o,
                       !.solvedCaseIds =
                           SolvedCaseIdsOfRows(UnsolvedRows(solved_at, case_evidence),
                                               EvidenceIds(o))],
                   200, TRUE, "none")]
    /\ UNCHANGED <<purchased_evidence, solved_at, case_evidence, purchases,
                   activities, shopify_orders, clock, env, stream,
                   case_analytics>>

\* the storefront evaluates the cases it has loaded against the cart that
\* became order o
EligibleCases(p, o) ==
    /\ Free(p)
    /\ shopify_orders[o].created
    /\ req' = [req EXCEPT ![p] =
           Respond([IdleReq EXCEPT !.op = "eligible", !.order = o,
                       !.solvedCaseIds =
                           GetEligibleCases(solved_at, case_evidence, EvidenceIds(o))],
                   200, TRUE, "none")]
    /\ UNCHANGED <<purchased_evidence, solved_at, case_evidence, purchases,
                   activities, shopify_orders, clock, env, stream,
                   case_analytics>>

NextCoverage ==
    \/ \E o \in OrderIds, items \in LineItems : PlaceOrder(o, items, NoAttr)
    \/ \E p \in Slots, o \in OrderIds : CoverageTest(p, o)
    \/ \E p \in Slots, o \in OrderIds : EligibleCases(p, o)
    \/ \E p \in Slots : Ack(p)

SpecCoverage == InitCoverage /\ [][NextCoverage]_vars

----------------------------------------------------------------------------
(* The read routes of the workers over one Neon database and one activity    *)
(* log, next to the requests that write them: the ledger worker's order      *)
(* webhook and reset, and POST /activity of the worker with the Data API     *)

\* the orders of this specification convey what case 2 requires
ReadsItems == <<"Y">>

MaxPolls == 2

\* one of the connection's first MaxPolls firings of the interval
ReadsPollStart == stream.nextPoll <= MaxPolls * PollIntervalMs /\ PollStart

NextReads ==
    \/ Tick
    \/ \E o \in OrderIds : PlaceOrder(o, ReadsItems, NoAttr)
    \/ \E o \in OrderIds : OrderWebhook(1, o)
    \/ WebhookInsert(1)
    \/ WebhookSelect(1)
    \/ WebhookUpdate(1)
    \/ WebhookQueryFails(1)
    \/ ResetProgress(1)
    \/ ResetCases(1)
    \/ \E activity \in StreamPosted : MongoPostActivity(1, activity)
    \/ \E ok \in BOOLEAN : MongoPostInsert(1, ok)
    \/ GetPurchasedEvidence(1)
    \/ \E op \in {"cases", "metrics"} : ReadOnly(1, op)
    \/ \E ok \in BOOLEAN, since \in 0..MaxTime : Analytics(1, ok, since)
    \/ \E w \in 0..MaxTime : StreamConnect(w)
    \/ ReadsPollStart
    \/ \E k \in 1..MaxOverlap : PollQuery(k)
    \/ \E k \in 1..MaxOverlap : PollResult(k)
    \/ \E k \in 1..MaxOverlap : PollEnd(k)
    \/ Ack(1)

SpecReads == InitMongo /\ [][NextReads]_vars

----------------------------------------------------------------------------
(* The connection_count of a poll cycle: the log holds events of clients,    *)
(* which carry data.session_id (logActivity of src/frontend/src/App.jsx),    *)
(* and the case_solved events of the order webhook, which carry none         *)

Sessions == {"s1", "s2"}

\* logActivity: body {type, data: {...data, session_id}}
SessionPosted ==
    {[type |-> "cart_add", data |-> [evidence_id |-> "X", session_id |-> s]] :
         s \in Sessions}

\* the _id of $group: {_id: '$data.session_id'}: an event without the field is
\* grouped under null
SessionIdOf(a) ==
    IF "session_id" \in DOMAIN a.data THEN a.data.session_id ELSE "null"

\* $match {timestamp >= since}, $group by data.session_id, $count 'total';
\* sessionsResult.documents?.[0]?.total || 0
SessionCount(coll, since) ==
    Cardinality({SessionIdOf(coll[k]) :
                    k \in {j \in DOMAIN coll : coll[j].timestamp >= since}})

\* the aggregate's response reaches cycle k: connection_count is enqueued with
\* the count of the window that began at since (30 seconds before the query); on
\* a closed stream the enqueue throws and so does the one in the catch
PollCount(k, since) ==
    /\ k \in DOMAIN stream.polls /\ stream.polls[k].pc = "count"
    /\ since <= clock
    /\ stream' =
          IF stream.state = "closed"
          THEN [stream EXCEPT !.polls = RemoveAt(@, k), !.unhandled = TRUE]
          ELSE [stream EXCEPT !.polls = RemoveAt(@, k),
                              !.counts = Append(@, SessionCount(activities, since))]
    /\ UNCHANGED <<purchased_evidence, solved_at, case_evidence, purchases,
                   activities, shopify_orders, clock, req, env, case_analytics>>

\* the orders of this specification name case 1
SessionsAttr == [present |-> TRUE, value |-> <<1>>]

InitSessions ==
    /\ purchased_evidence = {}
    /\ solved_at = [c \in Cases |-> NULL]
    /\ case_evidence = SeedCaseEvidence
    /\ purchases = {}
    /\ activities = <<>>
    /\ shopify_orders = [o \in OrderIds |-> NoOrder]
    /\ clock = 1
    /\ req = [p \in Slots |-> IdleReq]
    /\ env = [mongodb_configured |-> TRUE]
    /\ stream = NoStream
    /\ case_analytics = SeedAnalytics

NextSessions ==
    \/ Tick
    \/ \E o \in OrderIds : PlaceOrder(o, <<"X">>, SessionsAttr)
    \/ \E o \in OrderIds : MongoOrderWebhook(1, o)
    \/ MongoUpdate(1)
    \/ \E ok \in BOOLEAN : MongoLogSolved(1, ok)
    \/ MongoQueryFails(1)
    \/ \E activity \in SessionPosted : MongoPostActivity(1, activity)
    \/ \E ok \in BOOLEAN : MongoPostInsert(1, ok)
    \/ Ack(1)
    \/ \E w \in 0..MaxTime : StreamConnect(w)
    \/ ReadsPollStart
    \/ \E k \in 1..MaxOverlap : PollQuery(k)
    \/ \E k \in 1..MaxOverlap : PollResult(k)
    \/ \E k \in 1..MaxOverlap, since \in 0..MaxTime : PollCount(k, since)
    \/ \E k \in 1..MaxOverlap : PollEnd(k)

SpecSessions == InitSessions /\ [][NextSessions]_vars

----------------------------------------------------------------------------
(* The SQL functions record_purchase and solve_case (src/unnamed/part_000).  *)
(* A call is one statement: it runs in one transaction, and an exception     *)
(* raised in the function undoes what the function did before it.            *)

\* the arrays given as p_case_ids: none, one id, two ids, one id twice, an id of
\* no case
NoCase == 3
CaseIdArrays == {<<>>, <<1>>, <<2>>, <<1, 2>>, <<1, 1>>, <<NoCase>>}

\* solve_case: UPDATE cases SET solved_at = CURRENT_TIMESTAMP WHERE id = p_case_id
\* AND solved_at IS NULL; UPDATE case_analytics SET completions = completions + 1
\* WHERE case_id = p_case_id
SolveCase(db, caseId, now) ==
    [db EXCEPT
        !.solved_at = [c \in Cases |->
                          IF c = caseId /\ @[c] = NULL THEN now ELSE @[c]],
        !.case_analytics = [c \in Cases |-> IF c = caseId THEN @[c] + 1 ELSE @[c]]]

\* FOREACH v_case_id IN ARRAY p_case_ids LOOP PERFORM solve_case(v_case_id)
RECURSIVE SolveEach(_, _, _)
SolveEach(db, caseIds, now) ==
    IF caseIds = <<>> THEN db
    ELSE SolveEach(SolveCase(db, Head(caseIds), now), Tail(caseIds), now)

\* mutant: INSERT ... ON CONFLICT (order_id) DO NOTHING, then the loop
RecordPurchaseOnConflictDoNothing(db, orderId, evidenceIds, caseIds, now) ==
    LET ins == InsertPurchase(db.purchases, orderId, evidenceIds, caseIds)
    IN  [SolveEach([db EXCEPT !.purchases = ins.table], caseIds, now)
            EXCEPT !.error = "none"]

\* record_purchase: the INSERT, then the loop; a unique violation of the INSERT
\* ends the call with the tables as they were
RecordPurchaseFn(db, orderId, evidenceIds, caseIds, now) ==
    LET ins == InsertPurchase(db.purchases, orderId, evidenceIds, caseIds)
    IN  IF ins.error # "none" THEN [db EXCEPT !.error = ins.error]
        ELSE SolveEach([db EXCEPT !.purchases = ins.table], caseIds, now)

\* SELECT record_purchase(orderId, evidenceIds, caseIds, total) by a client of
\* the database
RecordPurchase(p, orderId, evidenceIds, caseIds) ==
    /\ Free(p)
    /\ LET db == RecordPurchaseFn(
                     [purchases |-> purchases, solved_at |-> solved_at,
                      case_analytics |-> case_analytics, error |-> "none"],
                     orderId, evidenceIds, caseIds, clock)
           r == [IdleReq EXCEPT !.op = "record_purchase", !.order = orderId]
       IN  /\ purchases' = db.purchases
           /\ solved_at' = db.solved_at
           /\ case_analytics' = db.case_analytics
           /\ req' = [req EXCEPT ![p] =
                  IF db.error = "none" THEN Respond(r, 200, TRUE, "none")
                  ELSE WorkerError(r, db.error)]
    /\ UNCHANGED <<purchased_evidence, case_evidence, activities, shopify_orders,
                   clock, env, stream>>

NextRecordPurchase ==
    \/ Tick
    \/ \E p \in Slots, o \in OrderIds, e \in OneItem, ids \in CaseIdArrays :
           RecordPurchase(p, o, e, ids)
    \/ \E p \in Slots : Ack(p)

SpecRecordPurchase == Init /\ [][NextRecordPurchase]_vars

----------------------------------------------------------------------------
(* The feed of case_solved events: POST /activity stores the body a client   *)
(* sends, whatever its type (handlePostActivity spreads it into the          *)
(* document; the collection's validator lists case_solved among the types),  *)
(* next to the order webhook and an observer's connection                    *)

\* bodies a client may post: an event of its own, and one typed case_solved
FeedPosted ==
    StreamPosted \cup
        {[type |-> "case_solved", data |-> [case_ids |-> <<1>>, order_id |-> 0]]}

NextFeed ==
    \/ Tick
    \/ \E o \in OrderIds : PlaceOrder(o, <<"X">>, SessionsAttr)
    \/ \E o \in OrderIds : MongoOrderWebhook(1, o)
    \/ MongoUpdate(1)
    \/ \E ok \in BOOLEAN : MongoLogSolved(1, ok)
    \/ MongoQueryFails(1)
    \/ \E activity \in FeedPosted : MongoPostActivity(1, activity)
    \/ \E ok \in BOOLEAN : MongoPostInsert(1, ok)
    \/ Ack(1)
    \/ \E w \in 0..MaxTime : StreamConnect(w)
    \/ ReadsPollStart
    \/ \E k \in 1..MaxOverlap : PollQuery(k)
    \/ \E k \in 1..MaxOverlap : PollResult(k)
    \/ \E k \in 1..MaxOverlap : PollEnd(k)

SpecFeed == InitSessions /\ [][NextFeed]_vars

----------------------------------------------------------------------------
(* A poll cycle whose find fails: mongoFind throws (the Data API's response  *)
(* is not ok, or the fetch fails), the catch of the interval callback        *)
(* enqueues an 'error' message, and the interval goes on                     *)

\* the events of the log beyond the watermark that cycle k asked from
PendingAt(k) ==
    {j \in DOMAIN activities : activities[j].timestamp > stream.polls[k].since}

\* the find of cycle k throws, before or after the Data API ran it: the catch
\* enqueues the 'error' message and the cycle ends; lastTimestamp and the
\* interval are not touched. pending keeps what the cycle would have found. On a
\* closed stream the enqueue in the catch throws
PollFindFails(k) ==
    /\ k \in DOMAIN stream.polls /\ stream.polls[k].pc \in {"find", "found"}
    /\ stream' =
          IF stream.state = "closed"
          THEN [stream EXCEPT !.polls = RemoveAt(@, k), !.unhandled = TRUE]
          ELSE [stream EXCEPT !.polls = RemoveAt(@, k),
                              !.errors = @ + 1,
                              !.pending = @ \cup PendingAt(k)]
    /\ UNCHANGED <<purchased_evidence, solved_at, case_evidence, purchases,
                   activities, shopify_orders, clock, req, env, case_analytics>>

NextPollFailure ==
    \/ Tick
    \/ \E activity \in StreamPosted : MongoPostActivity(1, activity)
    \/ \E ok \in BOOLEAN : MongoPostInsert(1, ok)
    \/ Ack(1)
    \/ \E w \in 0..MaxTime : StreamConnect(w)
    \/ ReadsPollStart
    \/ \E k \in 1..MaxOverlap : PollQuery(k)
    \/ \E k \in 1..MaxOverlap : PollFindFails(k)
    \/ \E k \in 1..MaxOverlap : PollResult(k)
    \/ \E k \in 1..MaxOverlap : PollEnd(k)

SpecPollFailure == InitSessions /\ [][NextPollFailure]_vars

----------------------------------------------------------------------------
(* solve_case called on its own, as a statement of a database client        *)

MaxCompletions == 5

\* SELECT solve_case(caseId): both UPDATEs in the caller's transaction. An id of
\* no case matches no row of either table
SolveCaseCall(caseId) ==
    /\ caseId \in Cases => case_analytics[caseId] < MaxCompletions
    /\ LET db == SolveCase([solved_at |-> solved_at,
                            case_analytics |-> case_analytics], caseId, clock)
       IN  /\ solved_at' = db.solved_at
           /\ case_analytics' = db.case_analytics
    /\ UNCHANGED <<purchased_evidence, case_evidence, purchases, activities,
                   shopify_orders, clock, req, env, stream>>

NextSolveCase ==
    \/ Tick
    \/ \E caseId \in Cases \cup {NoCase} : SolveCaseCall(caseId)

SpecSolveCase == Init /\ [][NextSolveCase]_vars

----------------------------------------------------------------------------
(* handleOrderWebhook of the ledger worker run from its first statement to   *)
(* its response with no other request between its statements: orders        *)
(* processed one after the other                                             *)

\* for (const evidenceId of evidenceIds) await queryNeon(INSERT ...): a statement
\* that throws ends the loop and the handler
RECURSIVE InsertEach(_, _, _)
InsertEach(res, evidenceIds, orderId) ==
    IF evidenceIds = <<>> \/ res.error # "none" THEN res
    ELSE InsertEach(InsertPurchasedEvidence(res.table, Head(evidenceIds), orderId),
                    Tail(evidenceIds), orderId)

\* the handler's statements in turn on the tables db: the INSERTs, the SELECT of
\* the unsolved cases with the loop that fills solvedCaseIds, and the UPDATE when
\* that list is not empty
HandleOrderWebhookFn(db, o, now) ==
    LET ins == InsertEach([table |-> db.purchased_evidence, error |-> "none"],
                          EvidenceIds(o), o)
        solved == SolvedCaseIds(UnsolvedCases(db.solved_at), EvidenceIds(o))
    IN  IF ins.error # "none"
        THEN [purchased_evidence |-> ins.table, solved_at |-> db.solved_at,
              solvedCaseIds |-> {}, error |-> ins.error]
        ELSE [purchased_evidence |-> ins.table,
              solved_at |-> IF solved = {} THEN db.solved_at
                            ELSE UpdateCasesSolved(db.solved_at, solved, now),
              solvedCaseIds |-> solved, error |-> "none"]

Tables == [purchased_evidence |-> purchased_evidence, solved_at |-> solved_at]

\* a delivery of order o handled from request to response
HandleOrderWebhook(p, o) ==
    /\ Free(p)
    /\ shopify_orders[o].created
    /\ LET db == HandleOrderWebhookFn(Tables, o, clock)
           r == [IdleReq EXCEPT !.op = "webhook", !.order = o,
                                !.dup = AlreadyProcessed(o),
                                !.solvedCaseIds = db.solvedCaseIds]
       IN  /\ purchased_evidence' = db.purchased_evidence
           /\ solved_at' = db.solved_at
           /\ req' = [req EXCEPT ![p] =
                  IF db.error = "none" THEN Respond(r, 200, TRUE, "none")
                  ELSE WorkerError(r, db.error)]
    /\ UNCHANGED <<case_evidence, purchases, activities, shopify_orders, clock,
                   env, stream, case_analytics>>

\* any ledger left by earlier orders (order id 0), any cases solved, any
\* requirement sets
InitCommute ==
    /\ purchased_evidence \in
           {{[evidence_id |-> e, order_id |-> 0] : e \in S} : S \in SUBSET Evidence}
    /\ solved_at \in [Cases -> {NULL, 1}]
    /\ case_evidence \in [Cases -> SUBSET Evidence \ {{}}]
    /\ purchases = {}
    /\ activities = <<>>
    /\ shopify_orders = [o \in OrderIds |-> NoOrder]
    /\ clock = 1
    /\ req = [p \in Slots |-> IdleReq]
    /\ env = [mongodb_configured |-> TRUE]
    /\ stream = NoStream
    /\ case_analytics = SeedAnalytics

NextCommute ==
    \/ Tick
    \/ \E o \in OrderIds, items \in LineItems : PlaceOrder(o, items, NoAttr)
    \/ \E p \in Slots, o \in OrderIds : HandleOrderWebhook(p, o)
    \/ \E p \in Slots : Ack(p)

SpecCommute == InitCommute /\ [][NextCommute]_vars

----------------------------------------------------------------------------
(* handleOrderWebhook of src/worker.js: the worker that reads the case ids   *)
(* from note_attributes, updates the cases one by one and logs case_solved   *)
(* (env.NEON_API_KEY is set)                                                 *)

\* caseIdsAttr.value.split(',').map(id => parseInt(id)): no filter, so a piece
\* that is no number stays in the list as NaN, and the empty text gives [NaN]
WorkerJsCaseIds(value) == IF value = <<>> THEN <<NaNId>> ELSE value

WorkerJsCaseIdsOf(o) == WorkerJsCaseIds(shopify_orders[o].case_ids.value)

\* request.json(); the early return when note_attributes has no case_ids entry;
\* caseIds
WorkerJsWebhook(p, o) ==
    /\ Free(p)
    /\ LogRoom
    /\ shopify_orders[o].created
    /\ LET attr == shopify_orders[o].case_ids
           r == [IdleReq EXCEPT !.op = "webhook", !.order = o,
                                !.dup = AlreadyProcessed(o)]
       IN  req' = [req EXCEPT ![p] =
               IF ~attr.present THEN Respond(r, 200, FALSE, "no_case_ids")
               ELSE [r EXCEPT !.pc = "update", !.i = 1]]
    /\ UNCHANGED <<purchased_evidence, solved_at, case_evidence, purchases,
                   activities, shopify_orders, clock, env, stream,
                   case_analytics>>

\* one pass of: for (const caseId of caseIds) await queryNeon(UPDATE cases SET
\* solved_at = NOW() WHERE id = $1 AND solved_at IS NULL); NaN is sent as null
\* and matches no row
WorkerJsUpdate(p) ==
    /\ req[p].op = "webhook" /\ req[p].pc = "update"
    /\ LET caseIds == WorkerJsCaseIdsOf(req[p].order)
       IN  /\ req[p].i <= Len(caseIds)
           /\ solved_at' = UpdateCasesIfUnsolved(solved_at, {caseIds[req[p].i]}, clock)
           /\ req' = [req EXCEPT ![p] =
                  IF req[p].i = Len(caseIds) THEN [@ EXCEPT !.pc = "activity", !.i = 0]
                  ELSE [@ EXCEPT !.i = @ + 1]]
    /\ UNCHANGED <<purchased_evidence, case_evidence, purchases, activities,
                   shopify_orders, clock, env, stream, case_analytics>>

\* if (env.MONGODB_API_KEY) await queryMongoDB(env, 'activities', 'insertOne',
\* {type: 'case_solved', case_ids: caseIds, ...});
\* return jsonResponse({success: true, cases_solved: caseIds.length})
WorkerJsLogSolved(p) ==
    /\ req[p].op = "webhook" /\ req[p].pc = "activity"
    /\ LET caseIds == Range(WorkerJsCaseIdsOf(req[p].order))
       IN  /\ activities' =
                  IF env.mongodb_configured
                  THEN Append(activities,
                           [type |-> "case_solved", timestamp |-> clock,
                            case_ids |-> caseIds, order_id |-> req[p].order])
                  ELSE activities
           /\ req' = [req EXCEPT ![p] =
                  Respond([@ EXCEPT !.solvedCaseIds = caseIds], 200, TRUE, "none")]
    /\ UNCHANGED <<purchased_evidence, solved_at, case_evidence, purchases,
                   shopify_orders, clock, env, stream, case_analytics>>

\* a statement that Neon or the Data API does not answer: the call throws and
\* fetch answers 500
WorkerJsQueryFails(p) ==
    /\ req[p].op = "webhook" /\ req[p].pc \in {"update", "activity"}
    /\ req' = [req EXCEPT ![p] = WorkerError(@, "query_failed")]
    /\ UNCHANGED <<purchased_evidence, solved_at, case_evidence, purchases,
                   activities, shopify_orders, clock, env, stream,
                   case_analytics>>

NextWorkerJs ==
    \/ Tick
    \/ \E o \in OrderIds, items \in OneItem, attr \in CaseIdsAttrs :
           PlaceOrder(o, items, attr)
    \/ \E p \in Slots, o \in OrderIds : WorkerJsWebhook(p, o)
    \/ \E p \in Slots : WorkerJsUpdate(p)
    \/ \E p \in Slots : WorkerJsLogSolved(p)
    \/ \E p \in Slots : WorkerJsQueryFails(p)
    \/ \E p \in Slots : Ack(p)

SpecWorkerJs == Init /\ [][NextWorkerJs]_vars

----------------------------------------------------------------------------
(* Properties *)

\* an order webhook call has been answered with success
WebhookSucceeded(p) ==
    req[p].op = "webhook" /\ req[p].pc = "done" /\ req[p].status = 200 /\ req[p].success

\* every evidence id the order conveys is in the ledger in that order's name
RecordedFor(o) ==
    \A e \in Range(EvidenceIds(o)) :
        [evidence_id |-> e, order_id |-> o] \in purchased_evidence

\* two answered calls for two orders that each convey a proper part of what case c
\* requires, together all of it, both parts standing in the ledger
HalvesProcessed(p, q, c) ==
    /\ p # q /\ WebhookSucceeded(p) /\ WebhookSucceeded(q)
    /\ req[p].order # req[q].order
    /\ Range(EvidenceIds(req[p].order)) # case_evidence[c]
    /\ Range(EvidenceIds(req[q].order)) # case_evidence[c]
    /\ Range(EvidenceIds(req[p].order)) \cup Range(EvidenceIds(req[q].order))
          = case_evidence[c]
    /\ RecordedFor(req[p].order) /\ RecordedFor(req[q].order)

CaseSolvedEvents(c) ==
    {k \in 1..Len(activities) :
        activities[k].type = "case_solved" /\ c \in activities[k].case_ids}

\* C1: a case requiring {A, B} is solved once an order conveying only A and
\* another order conveying only B have both been processed, and one of the two
\* results lists it as solved
C1_CrossOrderAccumulation ==
    \A p \in Slots, q \in Slots, c \in Cases :
        HalvesProcessed(p, q, c) =>
            /\ solved_at[c] # NULL
            /\ c \in req[p].solvedCaseIds \cup req[q].solvedCaseIds

\* the step in which call p evaluates the unsolved cases (its SELECT and the loop
\* over the result)
Evaluates(p) ==
    /\ req[p].op = "webhook" /\ req[p].pc = "insert"
    /\ req'[p].pc \in {"update", "done"} /\ req'[p].error = "none"

\* C2: the cases an order webhook call decides to transition from UNSOLVED to
\* SOLVED are exactly the unsolved cases whose requirements are a subset of the
\* purchased set (the ledger, the call's own evidence included) when it evaluates
C2_CoverageCorrectness ==
    [][\A p \in Slots : Evaluates(p) =>
          req'[p].solvedCaseIds =
              {c \in Cases : solved_at[c] = NULL /\ case_evidence[c] \subseteq LedgerSet}]_vars

\* C3: an order id for which a webhook call has succeeded has exactly one purchases
\* row, and the row names the cases that call reports as solved
C3_ExactlyOnePurchaseRecord ==
    \A p \in Slots : WebhookSucceeded(p) =>
        /\ Cardinality({row \in purchases : row.order_id = req[p].order}) = 1
        /\ \A row \in purchases : row.order_id = req[p].order =>
               Range(row.case_ids) = req[p].solvedCaseIds

\* C4: every step of a call for an order id that was already processed leaves the
\* ledger, the solved timestamps, purchases and the activity log unchanged, and the
\* call's answer is a success naming no newly solved case
C4_ResubmittedOrderIsNoOp ==
    [][\A p \in Slots :
          (req'[p].op = "webhook" /\ req'[p].dup /\ req'[p] # req[p]) =>
              /\ UNCHANGED <<purchased_evidence, solved_at, purchases, activities>>
              /\ (req'[p].pc = "done" /\ req'[p].error # "query_failed") =>
                     (req'[p].success /\ req'[p].solvedCaseIds = {})]_vars

\* C5: a redelivered order webhook is answered with a success response
C5_RedeliveryAnsweredAsSuccess ==
    \A p \in Slots :
        (req[p].op = "webhook" /\ req[p].pc = "done" /\ req[p].dup /\
         req[p].error # "query_failed") =>
            (req[p].status = 200 /\ req[p].success)

\* C6: once two order webhooks that each convey a disjoint half of a case's
\* requirements have both completed, the case is solved and exactly one
\* case_solved event exists for it
C6_RaceSafety ==
    \A p \in Slots, q \in Slots, c \in Cases :
        (HalvesProcessed(p, q, c) /\
         Range(EvidenceIds(req[p].order)) \cap Range(EvidenceIds(req[q].order)) = {}) =>
            /\ solved_at[c] # NULL
            /\ Cardinality(CaseSolvedEvents(c)) = 1

\* C7: an order webhook's write to solved_at changes only cases that are still
\* unsolved when it commits: a timestamp once written is not overwritten by
\* another webhook
C7_ConditionalSolveWrite ==
    [][\A p \in Slots : WebhookUpdate(p) =>
          \A c \in Cases : solved_at[c] # NULL => solved_at'[c] = solved_at[c]]_vars

\* C8: apart from the reset hook, no step takes a solved case back to unsolved or
\* changes a required-evidence set
C8_SolvedIsTerminal ==
    [][/\ case_evidence' = case_evidence
       /\ \/ \E p \in Slots : ResetCases(p)
          \/ \A c \in Cases : solved_at[c] # NULL => solved_at'[c] # NULL]_vars

\* C8 witness: a later order that covers an already solved case has been processed
\* and the case is still solved
C8_Witness ==
    \E p \in Slots, c \in Cases :
        /\ WebhookSucceeded(p)
        /\ AllPurchased(case_evidence[c], EvidenceIds(req[p].order))
        /\ c \notin req[p].solvedCaseIds
        /\ solved_at[c] # NULL

\* C9: apart from the reset hook, every evidence id in the ledger stays in it
C9_LedgerMonotonic ==
    [][\/ \E p \in Slots : ResetProgress(p)
       \/ LedgerSet \subseteq LedgerSet']_vars

\* C9 witness: an order conveying two evidence ids has been recorded after another
\* order's purchase, and all of them are in the ledger
C9_Witness ==
    \E p \in Slots :
        /\ WebhookSucceeded(p)
        /\ Cardinality(Range(EvidenceIds(req[p].order))) = 2
        /\ Range(EvidenceIds(req[p].order)) \subseteq LedgerSet
        /\ \E row \in purchased_evidence : row.order_id # req[p].order

OneRowPerEvidence ==
    \A r1 \in purchased_evidence, r2 \in purchased_evidence :
        r1.evidence_id = r2.evidence_id => r1 = r2

\* C10: recording an evidence id that is already in the ledger leaves the ledger
\* as it is (one row per evidence id, in the first order's name) and does not fail
C10_IdempotentRecording ==
    [][/\ OneRowPerEvidence'
       /\ \A p \in Slots :
            (WebhookInsert(p) /\ EvidenceIds(req[p].order)[req[p].i] \in LedgerSet) =>
                /\ purchased_evidence' = purchased_evidence
                /\ req'[p].pc = "insert" /\ req'[p].error = "none"]_vars

\* C10 witness: a call has recorded an evidence id that the ledger holds in the
\* name of another order, and has gone on
C10_Witness ==
    \E p \in Slots :
        /\ req[p].op = "webhook" /\ req[p].pc = "insert" /\ req[p].i > 1
        /\ \E row \in purchased_evidence :
              /\ row.evidence_id = EvidenceIds(req[p].order)[req[p].i - 1]
              /\ row.order_id # req[p].order

\* C11: on the catalog case 1 = {X, Y}, case 2 = {Y, Z}, with calls one after the
\* other: the call for order 1 = {X, Y}, evaluating with nothing solved and Z not
\* purchased, finds {1} and leaves case 2 unsolved; the call for order 2 = {Z},
\* evaluating after case 1 was solved, finds {2}; a call for order 1 evaluating
\* after case 1 was solved finds nothing
C11_ReferenceScenario ==
    [][\A p \in Slots :
          /\ (Evaluates(p) /\ req[p].order = 1 /\ "Z" \notin LedgerSet /\
              \A c \in Cases : solved_at[c] = NULL) =>
                 req'[p].solvedCaseIds = {1}
          /\ (WebhookUpdate(p) /\ req[p].order = 1) => solved_at'[2] = solved_at[2]
          /\ (Evaluates(p) /\ req[p].order = 2 /\ solved_at[1] # NULL /\
              solved_at[2] = NULL) =>
                 req'[p].solvedCaseIds = {2}
          /\ (Evaluates(p) /\ req[p].order = 1 /\ solved_at[1] # NULL) =>
                 req'[p].solvedCaseIds = {}]_vars

\* C12: the case_solved events of a call name exactly the cases that call newly
\* solved; a case is newly solved by at most one call (this worker has no reset),
\* so no case is named by more than one case_solved event, and a case that an
\* event names is solved
C12_EventPerNewlySolvedCase ==
    \A c \in Cases :
        /\ Cardinality(CaseSolvedEvents(c)) <= 1
        /\ CaseSolvedEvents(c) # {} => solved_at[c] # NULL

\* C13: an order webhook call whose durable write fails leaves none of its effects:
\* every solved case is accounted for by a purchases row naming it or by a call
\* that has made the transition and has still to write its purchases row, never
\* by a call that has failed; and every purchases row belongs to a call that
\* solved the cases it names
C13_AllOrNothing ==
    /\ \A c \in Cases : solved_at[c] # NULL =>
          \/ \E row \in purchases : c \in Range(row.case_ids)
          \/ \E p \in Slots :
                /\ req[p].op = "webhook" /\ req[p].pc = "purchase"
                /\ c \in Range(CaseIdsOf(req[p].order))
    /\ \A row \in purchases : \A c \in Range(row.case_ids) : solved_at[c] # NULL

\* the case_solved events the log holds for order o
SolvedEventsOf(o) ==
    {k \in DOMAIN activities :
        activities[k].type = "case_solved" /\ activities[k].data.order_id = o}

\* C14: an order webhook call is answered with success only when every write of the
\* call succeeded: the cases it names are solved and, where the log is configured,
\* its case_solved event is in the log; a call whose write failed is answered 500
C14_WriteFailuresVisible ==
    \A p \in Slots :
        (req[p].op = "webhook" /\ req[p].pc = "done") =>
            /\ (req[p].success /\ JsonCaseIdsOf(req[p].order) # <<>>) =>
                  /\ \A c \in Range(JsonCaseIdsOf(req[p].order)) : solved_at[c] # NULL
                  /\ env.mongodb_configured => SolvedEventsOf(req[p].order) # {}
            /\ req[p].error # "none" => (req[p].status = 500 /\ ~req[p].success)

\* C14 witness: a call whose case_solved insert the Data API refused has been
\* answered, after its case transition was written
C14_Witness ==
    \E p \in Slots :
        /\ req[p].op = "webhook" /\ req[p].pc = "done"
        /\ req[p].error = "insert_failed"
        /\ \A c \in Range(JsonCaseIdsOf(req[p].order)) : solved_at[c] # NULL

\* C19: an analytics response given while the log is empty, or the Data API does
\* not answer, or the worker has no Data API configured, carries four empty lists
\* and is not an error response
C19_AnalyticsDegradeGracefully ==
    \A p \in Slots :
        (/\ req[p].op = "analytics" /\ req[p].pc = "done"
         /\ \/ activities = <<>>
            \/ ~env.mongodb_configured
            \/ req[p].error = "read_failed") =>
            /\ req[p].body = EmptyAnalytics
            /\ req[p].status = 200 /\ req[p].error = "none"

\* the timestamp of the log's k-th event
TimestampOf(k) == activities[k].timestamp

\* C15: the events pushed on a connection, in the order pushed (within a poll
\* cycle and from one cycle to the next), are non-decreasing in timestamp
C15_FeedOrdering ==
    \A i \in DOMAIN stream.sent, j \in DOMAIN stream.sent :
        i < j => TimestampOf(stream.sent[i]) <= TimestampOf(stream.sent[j])

\* C16: whenever a poll cycle pushes events, each of them is beyond the watermark
\* and has not been pushed on this connection before, and the watermark becomes
\* the timestamp of the last one pushed
C16_NoDuplicateDelivery ==
    [][stream.sent' # stream.sent =>
          LET new == SubSeq(stream.sent', Len(stream.sent) + 1, Len(stream.sent'))
          IN  /\ \A i \in DOMAIN new :
                    /\ new[i] \notin Range(stream.sent)
                    /\ TimestampOf(new[i]) > stream.lastTimestamp
                    /\ \A j \in DOMAIN new : new[i] = new[j] => i = j
              /\ stream.lastTimestamp' = TimestampOf(new[Len(new)])]_vars

\* a poll cycle under way can still push the log's k-th event or take the
\* watermark back below it
StillInReach(k) ==
    \E j \in DOMAIN stream.polls :
        LET cycle == stream.polls[j]
        IN  \/ cycle.pc = "find" /\ cycle.since < TimestampOf(k)
            \/ /\ cycle.pc = "found" /\ cycle.result # <<>>
               /\ \/ k \in Range(cycle.result)
                  \/ TimestampOf(cycle.result[Len(cycle.result)]) < TimestampOf(k)

\* C17: while the connection is open, every event appended to the log since it
\* opened with a timestamp beyond the watermark has been pushed or will be found by
\* a poll cycle: it is beyond the watermark, or within reach of a cycle under way
C17_AtLeastOnceDelivery ==
    stream.state = "open" =>
        \A k \in stream.owed :
            \/ k \in Range(stream.sent)
            \/ TimestampOf(k) > stream.lastTimestamp
            \/ StillInReach(k)

\* C18: a connection is open no longer than its lifetime (300000 ms, 60000 ms in
\* mock mode); when the lifetime has elapsed the interval is cancelled and the
\* stream closed; after that the stream stays closed and no interval callback
\* starts
C18_StreamTerminates ==
    [][/\ stream.state' = "open" =>
             stream.age' <= (IF stream.mock' THEN MockLifetimeMs ELSE StreamLifetimeMs)
       /\ stream.state' = "closed" =>
             /\ stream.cancelled'
             /\ stream.age' = (IF stream.mock' THEN MockLifetimeMs ELSE StreamLifetimeMs)
       /\ stream.state = "closed" =>
             /\ stream.state' = "closed"
             /\ stream.nextPoll' = stream.nextPoll
             /\ Len(stream.polls') <= Len(stream.polls)]_vars

\* C18 witness: a connection that pushed events has been closed by its timeout
\* while a poll cycle was still under way
C18_Witness ==
    /\ stream.state = "closed" /\ ~stream.mock
    /\ stream.sent # <<>>
    /\ stream.polls # <<>>

\* C20: when POST /reset-progress, run with no other request in flight, is
\* answered, the ledger is empty and every case is unsolved
C20_ResetPostcondition ==
    [][\A p \in Slots : ResetCases(p) =>
          /\ purchased_evidence' = {}
          /\ \A c \in Cases : solved_at'[c] = NULL
          /\ req'[p].pc = "done" /\ req'[p].success]_vars

\* C20 witness: a reset has been answered after an order webhook had recorded
\* evidence and solved a case, and nothing of either is left
C20_Witness ==
    \E p \in Slots, q \in Slots :
        /\ req[p].op = "reset" /\ req[p].pc = "done" /\ req[p].success
        /\ WebhookSucceeded(q) /\ req[q].solvedCaseIds # {}
        /\ purchased_evidence = {}
        /\ \A c \in Cases : solved_at[c] = NULL

\* the cases a step takes from unsolved to solved
Transitioned == {c \in Cases : solved_at[c] = NULL /\ solved_at'[c] # NULL}

\* C21: the cases an order webhook call stores in its purchases row and reports
\* in its answer are exactly the cases its UPDATE took from unsolved to solved
C21_ReportsExactlyTransitioned ==
    [][\A p \in Slots :
          /\ OrdersUpdate(p) => Range(CaseIdsOf(req[p].order)) = Transitioned
          /\ OrdersInsertPurchase(p) =>
                \A row \in purchases' \ purchases :
                    row.case_ids = CaseIdsOf(req[p].order)
          /\ OrdersLogSolved(p) =>
                req'[p].solvedCaseIds = Range(CaseIdsOf(req[p].order))]_vars

\* C22: the watermark of a connection starts at the time of subscribing, so no
\* event pushed on the connection has a timestamp earlier than the time the
\* connection was made
C22_WatermarkStartsAtSubscribe ==
    \A i \in DOMAIN stream.sent :
        TimestampOf(stream.sent[i]) >= stream.connected

\* requirement lists with the same entries as lists, in any order and repeated
\* any number of times
SameSetsAs(lists) ==
    {l2 \in [Cases -> RequiredLists] : \A c \in Cases : Range(l2[c]) = Range(lists[c])}

\* C23: the result of the coverage test, in the worker and in the storefront, is
\* the same for every purchased list and every requirement list with the same
\* entries (in any order, repeated any number of times), holds only cases that
\* are unsolved, and the evaluation changes no stored state
C23_CoverageIsPureOnSets ==
    [][\A p \in Slots, o \in OrderIds :
          (CoverageTest(p, o) \/ EligibleCases(p, o)) =>
              /\ req'[p].solvedCaseIds \subseteq UnsolvedCases(solved_at)
              /\ \A e2 \in LineItems, l2 \in SameSetsAs(case_evidence) :
                    Range(e2) = Range(EvidenceIds(o)) =>
                        req'[p].solvedCaseIds =
                            IF req'[p].op = "coverage"
                            THEN SolvedCaseIdsOfRows(UnsolvedRows(solved_at, l2), e2)
                            ELSE GetEligibleCases(solved_at, l2, e2)
              /\ UNCHANGED <<purchased_evidence, solved_at, case_evidence, purchases,
                             activities, shopify_orders, clock, env, stream>>]_vars

\* C23 witness: the worker has evaluated a purchased list given in the other
\* order than a case's requirement list and found the case covered, while a
\* solved case with a repeated requirement that the list covers is not in the
\* result
C23_Witness ==
    \E p \in Slots :
        /\ req[p].op = "coverage" /\ req[p].pc = "done"
        /\ EvidenceIds(req[p].order) = <<"Y", "X">>
        /\ case_evidence[1] = <<"X", "Y">> /\ 1 \in req[p].solvedCaseIds
        /\ case_evidence[2] = <<"Y", "Y">> /\ solved_at[2] # NULL
        /\ 2 \notin req[p].solvedCaseIds

\* C24: every step leaves each event of the activity log in its place with its
\* content, and adds at most one event at the end
C24_LogAppendOnly ==
    [][/\ Len(activities) <= Len(activities')
       /\ Len(activities') <= Len(activities) + 1
       /\ \A k \in DOMAIN activities : activities'[k] = activities[k]]_vars

\* C24 witness: the log holds an event a client posted followed by a later event
\* of the same type, and an insert the Data API refused has been answered
C24_Witness ==
    /\ Len(activities) = 2
    /\ activities[1].type = activities[2].type
    /\ activities[1].timestamp < activities[2].timestamp
    /\ \E p \in Slots : req[p].pc = "done" /\ req[p].error = "insert_failed"

\* a step of GET /purchased-evidence, /cases, /metrics or /activity/analytics, or
\* of a poll cycle of /activity/stream
ReadStep ==
    \/ \E p \in Slots : GetPurchasedEvidence(p)
    \/ \E p \in Slots, op \in {"cases", "metrics"} : ReadOnly(p, op)
    \/ \E p \in Slots, ok \in BOOLEAN, since \in 0..MaxTime : Analytics(p, ok, since)
    \/ PollStart
    \/ \E k \in 1..MaxOverlap : PollQuery(k) \/ PollResult(k) \/ PollEnd(k)

\* C25: every step of a read operation leaves the ledger, the solved timestamps,
\* the purchases table and the activity log as they are (a step either leaves
\* them as they are or is not a step of a read operation)
C25_ReadsHaveNoSideEffects ==
    [][\/ UNCHANGED <<purchased_evidence, solved_at, case_evidence, purchases,
                      activities>>
       \/ ~ReadStep]_vars

\* C25 witness: with evidence in the ledger, a case solved and an event in the
\* log, a poll cycle has pushed the event and a read request has been answered
C25_Witness ==
    /\ purchased_evidence # {}
    /\ \E c \in Cases : solved_at[c] # NULL
    /\ activities # <<>>
    /\ stream.sent # <<>>
    /\ \E p \in Slots :
          /\ req[p].pc = "done"
          /\ req[p].op \in {"purchased_evidence", "cases", "metrics", "analytics"}

\* the session ids of the log's events with a timestamp from since on
SessionIdsSince(since) ==
    {activities[k].data.session_id :
        k \in {j \in DOMAIN activities :
                  /\ activities[j].timestamp >= since
                  /\ "session_id" \in DOMAIN activities[j].data}}

\* C26: a poll cycle whose reads succeed on an open connection emits exactly one
\* connection_count, and its count is the number of distinct session ids among
\* the events of the trailing window (0 when there are none)
C26_ConnectionCount ==
    [][\A k \in 1..MaxOverlap, since \in 0..MaxTime :
          (PollCount(k, since) /\ stream.state = "open") =>
              /\ Len(stream.counts') = Len(stream.counts) + 1
              /\ stream.counts'[Len(stream.counts')] =
                     Cardinality(SessionIdsSince(since))]_vars

\* C27: record_purchase called with an order id that purchases holds fails and
\* leaves purchases, cases and case_analytics as they were; called with a new
\* order id it adds exactly one purchases row, for that order, sets solved_at on
\* each listed case that was unsolved and leaves every other solved_at as it was
C27_RecordPurchaseAllOrNothing ==
    [][\A p \in Slots, o \in OrderIds, e \in OneItem, ids \in CaseIdArrays :
          RecordPurchase(p, o, e, ids) =>
              IF \E row \in purchases : row.order_id = o
              THEN /\ req'[p].error # "none" /\ ~req'[p].success
                   /\ UNCHANGED <<purchases, solved_at, case_analytics>>
              ELSE /\ req'[p].success
                   /\ purchases \subseteq purchases'
                   /\ Cardinality(purchases' \ purchases) = 1
                   /\ \A row \in purchases' \ purchases : row.order_id = o
                   /\ \A c \in Cases :
                         IF c \in Range(ids) /\ solved_at[c] = NULL
                         THEN solved_at'[c] # NULL
                         ELSE solved_at'[c] = solved_at[c]]_vars

\* C27 witness: a call for a recorded order id has failed, after a call that
\* listed a solved case and an unsolved one
C27_Witness ==
    \E p \in Slots :
        /\ req[p].op = "record_purchase" /\ req[p].pc = "done"
        /\ req[p].error = "unique_violation"
        /\ \E row \in purchases : row.order_id = req[p].order
        /\ \E row \in purchases : row.case_ids = <<1, 2>>
        /\ solved_at[1] # NULL /\ solved_at[2] # NULL /\ solved_at[1] # solved_at[2]

\* C28: in every state with no request in flight, every case whose solved
\* timestamp is set has all of its required evidence in the ledger
C28_SolvedCasesCoveredWhenQuiet ==
    Quiet => \A c \in Cases : solved_at[c] # NULL => case_evidence[c] \subseteq LedgerSet

\* C29: a case_solved event enters the log only by the insert of an order
\* webhook call, and names only cases that are solved when it enters
C29_CaseSolvedOnlyFromWebhook ==
    [][(/\ Len(activities') > Len(activities)
        /\ activities'[Len(activities')].type = "case_solved") =>
           /\ \E p \in Slots, ok \in BOOLEAN : MongoLogSolved(p, ok)
           /\ \A c \in Range(activities'[Len(activities')].data.case_ids) :
                  solved_at[c] # NULL]_vars

\* C30: while a connection is open its watermark never decreases, whatever the
\* order in which the reads of overlapping poll cycles are answered
C30_WatermarkMonotonic ==
    [][(stream.state = "open" /\ stream.state' = "open") =>
           stream.lastTimestamp' >= stream.lastTimestamp]_vars

\* C31: once the timeout has closed the stream nothing more is enqueued on it,
\* and a poll cycle that was under way when it closed ends without an error that
\* nothing handles
C31_NothingAfterClose ==
    [][stream.state = "closed" =>
          /\ stream.sent' = stream.sent
          /\ stream.counts' = stream.counts
          /\ ~stream.unhandled']_vars

\* the log's k-th event has been pushed, or is beyond the watermark, or is
\* within reach of a poll cycle under way
NotLost(k) ==
    \/ k \in Range(stream.sent)
    \/ TimestampOf(k) > stream.lastTimestamp
    \/ StillInReach(k)

\* C32: a poll cycle whose find fails emits one error message, leaves the
\* watermark and the interval as they are and the stream open; and the events
\* that were pending at a failed cycle are pushed, or are still to be found by a
\* cycle to come or under way
C32_FailedPollLosesNothing ==
    [][/\ \A k \in 1..MaxOverlap :
             (PollFindFails(k) /\ stream.state = "open") =>
                 /\ stream.errors' = stream.errors + 1
                 /\ stream.lastTimestamp' = stream.lastTimestamp
                 /\ stream.state' = "open" /\ ~stream.cancelled'
                 /\ stream.nextPoll' = stream.nextPoll
                 /\ stream.sent' = stream.sent
       /\ stream.state' = "open" => \A j \in stream.pending' : NotLost(j)']_vars

\* C33: every step adds to a case's completions exactly the number of times the
\* case went from unsolved to solved in it (one or none), and a solved case
\* keeps its solved_at; so a solve_case call on a solved case changes neither
C33_CompletionsCountTransitions ==
    [][\A c \in Cases :
          /\ case_analytics'[c] =
                case_analytics[c] + (IF c \in Transitioned THEN 1 ELSE 0)
          /\ solved_at[c] # NULL => solved_at'[c] = solved_at[c]]_vars

PurchasedSetOf(db) == {row.evidence_id : row \in db.purchased_evidence}
SolvedSetOf(db) == {c \in Cases : db.solved_at[c] # NULL}

\* C34: when an order has been processed, processing any other order next ends
\* with the same purchased set and the same set of solved cases as processing
\* the two in the other sequence from the state before
C34_OrderArrivalCommutes ==
    [][\A p \in Slots, o1 \in OrderIds :
          HandleOrderWebhook(p, o1) =>
              \A o2 \in OrderIds \ {o1} :
                  shopify_orders[o2].created =>
                      LET after == [purchased_evidence |-> purchased_evidence',
                                    solved_at |-> solved_at']
                          a == HandleOrderWebhookFn(after, o2, clock)
                          b == HandleOrderWebhookFn(
                                   HandleOrderWebhookFn(Tables, o2, clock), o1, clock)
                      IN  /\ PurchasedSetOf(a) = PurchasedSetOf(b)
                          /\ SolvedSetOf(a) = SolvedSetOf(b)]_vars

\* two orders have been processed one after the other, each solved a case, and
\* the first brought an evidence id of the second into the ledger
C34_Witness ==
    /\ req[1].pc = "done" /\ req[2].pc = "done"
    /\ req[1].op = "webhook" /\ req[2].op = "webhook"
    /\ req[1].order # req[2].order
    /\ req[1].solvedCaseIds # {} /\ req[2].solvedCaseIds # {}
    /\ \E row \in purchased_evidence :
           /\ row.order_id = req[1].order
           /\ row.evidence_id \in Range(EvidenceIds(req[2].order))

\* the order's payload has no case_ids attribute, or one with no parsable id
NoUsableCaseIds(o) ==
    LET attr == shopify_orders[o].case_ids
    IN  ~attr.present \/ ParseCaseIds(attr.value) = <<>>

\* C35: no step of a webhook request for an order without a usable case id
\* changes solved_at, purchases or the activity log, and its response, unless a
\* query failed, has status 200
C35_NoCaseIdsNoEffect ==
    [][\A p \in Slots :
          (/\ req'[p] # req[p]
           /\ req'[p].op = "webhook"
           /\ NoUsableCaseIds(req'[p].order)) =>
              /\ UNCHANGED <<solved_at, purchases, activities>>
              /\ (req'[p].pc = "done" /\ req'[p].error # "query_failed") =>
                     req'[p].status = 200]_vars

====
